---- MODULE Spec2Model ----
(***************************************************************************)
(* Pildiraam: the server's cache-first album synchronisation               *)
(* (icloudService + cacheManager) and the slideshow's pooled image loader  *)
(* (public/slideshow.js), as state machines.                               *)
(*                                                                         *)
(* Time is in milliseconds (Date.getTime()).  The file system is a map     *)
(* from paths <<album directory, file name>> to file contents.             *)
(***************************************************************************)
EXTENDS Integers, Sequences, FiniteSets, TLC

\* ------------------------------------------------------------ bounds
MaxCalls == 2
MaxTicks == 2
TickMs == 64800000
MaxPhotos == 2
MaxImages == 5
MaxItems == 3
WindowImages == 12
WideImages == 27
MaxMoves == 3
MaxSlideElements == 2
MaxPage == 2

\* -------------------------------------------------- program constants
stalenessMinutes == 1440
MsPerMinute == 60000
retryAttempts == 3
MAX_CONCURRENT_LOADS == 4
MAX_IMAGE_RETRIES == 1
PRELOAD_WINDOW == 20
PreloadBehind == 5
EvictMargin == 5
IMAGES_PER_PAGE == 50
DefaultLimit == 20
MaxLimit == 100

Tokens == {"t1", "t2"}
Procs == {1, 2}
\* "" is the url of a photo none of whose derivatives has a url
NoUrl == ""
Urls == {"u1", "u2"}

\* ------------------------------------------------------- file system
tokenToHash(token) == <<"sha256:16", token>>
imageUrlToHash(url) == <<"sha256", url, ".jpg">>
MetadataJson == <<"metadata.json">>

getAlbumCacheDir(token) == tokenToHash(token)
MetadataPath(token) == <<getAlbumCacheDir(token), MetadataJson>>
getImagePath(token, filename) == <<getAlbumCacheDir(token), filename>>

AlbumDirs == {getAlbumCacheDir(t) : t \in Tokens}
FileNames == {MetadataJson} \cup {imageUrlToHash(u) : u \in Urls}
Paths == AlbumDirs \X FileNames

\* file contents
NoFile == [enoent |-> TRUE]
\* a file opened for writing (truncated) whose data is not written yet
Partial == [partial |-> TRUE]
BlobFile(bytes) == [bytes |-> bytes]
JsonFile(obj) == [json |-> obj]
\* a metadata.json that JSON.parse rejects ('invalid json')
Corrupt == [corrupt |-> TRUE]

\* values of the program
null == [isNull |-> TRUE]
\* a Date is its getTime() value; an Invalid Date has the time NaN
DateOf(ms) == [time |-> ms]
InvalidDate == [nan |-> TRUE]
isNaN(date) == "nan" \in DOMAIN date
toISOString(date) == [iso |-> date.time]
NewDate(str) == IF "iso" \in DOMAIN str THEN DateOf(str.iso) ELSE InvalidDate

Range(s) == {s[k] : k \in 1..Len(s)}

VARIABLES now, disk, proc, calls, state, ret

serverVars == <<now, disk, proc, calls>>
vars == <<now, disk, proc, calls, state, ret>>

\* ret holds one call of a function taken alone: its name and arguments
\* and, once it has returned, its result
NoCall == [fn |-> "none"]
Returned(call) == "result" \in DOMAIN call

\* ------------------------------------------------- public/slideshow.js
\* The variable state holds the fields of the script's state object, the
\* slides of the document (slideshow: index -> the img of the element with
\* id 'slide-'+index) and the img elements created so far (imgs, for each
\* index in the order of creation).  An img is named <<index, k>>: the k-th
\* img created for the index.  The order of the images (shuffle) is not
\* part of this state: the loader works on indices.
Max(a, b) == IF a > b THEN a ELSE b
Min(a, b) == IF a < b THEN a ELSE b

Indices == 0 .. (Max(Max(MaxImages, WindowImages), WideImages) - 1)
NoElement == <<>>

InitialState ==
  [totalImages |-> 0, currentIndex |-> 0, allPagesLoaded |-> FALSE,
   aborted |-> FALSE,
   imageElements |-> [k \in Indices |-> NoElement],
   imageLoadQueue |-> <<>>, loadingCount |-> 0,
   imageRetryMap |-> [k \in Indices |-> 0],
   failedImages |-> {},
   slideshow |-> [k \in Indices |-> NoElement],
   imgs |-> [k \in Indices |-> <<>>]]

\* the while loop of processImageLoadQueue: img.src is set
RECURSIVE StartLoads(_)
StartLoads(st) ==
  IF st.loadingCount < MAX_CONCURRENT_LOADS /\ st.imageLoadQueue # <<>>
  THEN LET loadItem == Head(st.imageLoadQueue)
       IN StartLoads([st EXCEPT
            !.imageLoadQueue = Tail(@),
            !.loadingCount = @ + 1,
            !.imgs[loadItem.element[1]][loadItem.element[2]] =
               [@ EXCEPT !.status = "loading", !.loads = @ + 1]])
  ELSE st

\* arguments: the arguments of the call, none at every call site
processImageLoadQueue(st, arguments) ==
  StartLoads(IF st.loadingCount > 0 /\ Len(arguments) = 0
             THEN [st EXCEPT !.loadingCount = @ - 1]
             ELSE st)

\* the item is put at the head of the queue and waits there for a free slot
queueImageLoad_Stack(st, index, imgElement) ==
  processImageLoadQueue(
    [st EXCEPT !.imageLoadQueue =
       <<[index |-> index, element |-> imgElement]>> \o @],
    <<TRUE>>)

queueImageLoad(st, index, imgElement) ==
  processImageLoadQueue(
    [st EXCEPT !.imageLoadQueue =
       Append(@, [index |-> index, element |-> imgElement])],
    <<>>)

getOrCreateSlideElement(st, index) ==
  IF st.slideshow[index] # NoElement
  THEN st
  ELSE LET img == <<index, Len(st.imgs[index]) + 1>>
       IN queueImageLoad(
            [st EXCEPT
               !.imgs[index] = Append(@, [status |-> "created", loads |-> 0]),
               !.slideshow[index] = img,
               !.imageElements[index] = img],
            index, img)

\* the first loop of preloadNearbyImages, from i to end
RECURSIVE PreloadRange(_, _, _)
PreloadRange(st, i, end) ==
  IF i > end THEN st
  ELSE PreloadRange(getOrCreateSlideElement(st, i), i + 1, end)

\* the window starts at the current slide, with nothing behind it
preloadNearbyImages_Ahead(st) ==
  LET start == Max(0, st.currentIndex)
      end == Min(st.totalImages - 1, st.currentIndex + PRELOAD_WINDOW)
      created == PreloadRange(st, start, end)
      keysToRemove ==
        {k \in Indices : /\ created.imageElements[k] # NoElement
                         /\ (k < start - EvictMargin \/ k > end + EvictMargin)}
  IN [created EXCEPT
        !.slideshow = [k \in Indices |->
           IF k \in keysToRemove /\ @[k] = created.imageElements[k]
           THEN NoElement ELSE @[k]],
        !.imageElements = [k \in Indices |->
           IF k \in keysToRemove THEN NoElement ELSE @[k]]]

preloadNearbyImages(st) ==
  LET start == Max(0, st.currentIndex - PreloadBehind)
      end == Min(st.totalImages - 1, st.currentIndex + PRELOAD_WINDOW)
      created == PreloadRange(st, start, end)
      keysToRemove ==
        {k \in Indices : /\ created.imageElements[k] # NoElement
                         /\ (k < start - EvictMargin \/ k > end + EvictMargin)}
  IN [created EXCEPT
        !.slideshow = [k \in Indices |->
           IF k \in keysToRemove /\ @[k] = created.imageElements[k]
           THEN NoElement ELSE @[k]],
        !.imageElements = [k \in Indices |->
           IF k \in keysToRemove THEN NoElement ELSE @[k]]]

showSlide(st, index) ==
  IF index < 0 \/ index >= st.totalImages
  THEN st
  ELSE preloadNearbyImages(getOrCreateSlideElement(st, index))

startSlideshow(st) ==
  IF st.totalImages = 0
  THEN st
  ELSE preloadNearbyImages(showSlide([st EXCEPT !.currentIndex = 0], 0))

nextSlide(st) ==
  IF st.totalImages = 0
  THEN st
  ELSE LET index == (st.currentIndex + 1) % st.totalImages
       IN showSlide([st EXCEPT !.currentIndex = index], index)

previousSlide(st) ==
  IF st.totalImages = 0
  THEN st
  ELSE LET index == IF st.currentIndex - 1 < 0
                    THEN st.totalImages - 1
                    ELSE st.currentIndex - 1
       IN showSlide([st EXCEPT !.currentIndex = index], index)

\* img.onload of the img of the given index
onload(st, index) ==
  processImageLoadQueue([st EXCEPT !.imageRetryMap[index] = 0], <<>>)

\* img.onerror of the img of the given index
onerror(st, index, img) ==
  IF index \in st.failedImages
  THEN processImageLoadQueue(st, <<>>)
  ELSE IF st.imageRetryMap[index] < MAX_IMAGE_RETRIES
       THEN processImageLoadQueue(
              queueImageLoad([st EXCEPT !.imageRetryMap[index] = @ + 1], index, img),
              <<>>)
       ELSE processImageLoadQueue(
              [st EXCEPT
                 !.failedImages = @ \cup {index},
                 !.slideshow[index] = IF @ = img THEN NoElement ELSE @,
                 !.imageElements[index] = NoElement],
              <<>>)

\* ------------------------------------------------------ cacheManager
AlbumData(metadata, photos, lastSynced) ==
  [metadata |-> metadata, photos |-> photos, lastSynced |-> lastSynced]

\* the catch is left out and a file that does not parse gives an empty album
loadAlbumMetadata_NoCatch(content) ==
  IF content = NoFile THEN null
  ELSE IF "json" \in DOMAIN content
       THEN AlbumData(content.json.metadata, content.json.photos,
                      NewDate(content.json.lastSynced))
       ELSE AlbumData([itemsReturned |-> 0], <<>>, DateOf(0))

\* fs.access fails (null); a record that does not parse makes JSON.parse
\* throw, which the catch turns into null as well
loadAlbumMetadata(content) ==
  IF content = NoFile THEN null
  ELSE IF "json" \in DOMAIN content
       THEN AlbumData(content.json.metadata, content.json.photos,
                      NewDate(content.json.lastSynced))
       ELSE null

CachedAlbumMetadata(data, t) ==
  [metadata |-> data.metadata, photos |-> data.photos,
   lastSynced |-> toISOString(data.lastSynced),
   lastAccessed |-> toISOString(DateOf(t))]

\* the age compared in milliseconds against the threshold in minutes
IsStaleAge_NoUnitConversion(lastSynced, t) ==
  IF isNaN(lastSynced) THEN FALSE
  ELSE (t - lastSynced.time) > stalenessMinutes

\* the comparison is >= : a snapshot of exactly the threshold age is stale
AgeExceeds_AtLeast(lastSynced, t, minutes) ==
  IF isNaN(lastSynced) THEN FALSE
  ELSE (t - lastSynced.time) >= minutes * MsPerMinute

\* ageMinutes > stalenessMinutes, with ageMinutes = milliseconds / (1000 * 60);
\* NaN > stalenessMinutes is false
AgeExceeds(lastSynced, t, minutes) ==
  IF isNaN(lastSynced) THEN FALSE
  ELSE (t - lastSynced.time) > minutes * MsPerMinute

\* the check with the default threshold
IsStaleAge(lastSynced, t) == AgeExceeds(lastSynced, t, stalenessMinutes)

\* isAlbumCacheStale(token, stalenessMinutes)
isAlbumCacheStaleWith(content, t, minutes) ==
  LET albumData == loadAlbumMetadata(content)
  IN IF albumData = null THEN TRUE ELSE AgeExceeds(albumData.lastSynced, t, minutes)

\* isAlbumCacheStale(token)
isAlbumCacheStale(content, t) ==
  LET albumData == loadAlbumMetadata(content)
  IN IF albumData = null THEN TRUE ELSE IsStaleAge(albumData.lastSynced, t)

imageExists(d, token, filename) == d[getImagePath(token, filename)] # NoFile

\* ----------------------------------------------------- icloudService
Photo(url) == [url |-> url]
PhotoLists == UNION {[1..n -> {Photo(u) : u \in Urls}] : n \in 0..MaxPhotos}

\* what getImages(token) yields: a response, a response without photos or
\* metadata, or a rejection
Responses ==
  {[status |-> "rejected"], [status |-> "invalid"]}
    \cup {[status |-> "ok", photos |-> ps] : ps \in PhotoLists}

fetchAlbumFromiCloud(resp, t) ==
  IF resp.status = "ok"
  THEN AlbumData([itemsReturned |-> Len(resp.photos)], resp.photos, DateOf(t))
  ELSE null

\* what axios.get(imageUrl) yields: 200 with data, another 2xx status, or a
\* rejection (0: no response, i.e. network error or timeout)
\* No two responses carry the same bytes: the data is tagged with the request
\* that got it (the call and the position in its download list).
AxiosOutcomes(request) ==
  {[status |-> 200, data |-> request]}
    \cup {[status |-> s] : s \in {204, 429, 503, 404, 0}}

AxiosOk(outcome) == outcome.status = 200

\* image.url is the url of the photo's best derivative, so when it is empty
\* no derivative has a url either and the result is null, written NoUrl
selectBestImageUrl(image) == image.url

NextAttempt(attempt) == attempt + 1

\* the metadata alone decides, the file on disk is not looked at
ResolvePhoto_MetadataOnly(d, token, photo, cachedPhotos, list) ==
  LET cachedUrls == {ph.url : ph \in Range(cachedPhotos)}
  IN IF photo.url \notin cachedUrls THEN Append(list, photo) ELSE list

\* the file alone decides, the cached list is not looked at
ResolvePhoto_FileOnly(d, token, photo, cachedPhotos, list) ==
  IF ~imageExists(d, token, imageUrlToHash(photo.url))
  THEN Append(list, photo)
  ELSE list

\* one pass of the loop body of determineImagesToDownload
ResolvePhoto(d, token, photo, cachedPhotos, list) ==
  LET cachedUrls == {ph.url : ph \in Range(cachedPhotos)}
  IN IF photo.url \notin cachedUrls THEN Append(list, photo)
     ELSE IF ~imageExists(d, token, imageUrlToHash(photo.url))
          THEN Append(list, photo)
          ELSE list

\* ------------------------------------------- syncAlbumWithCache, by step
NoPath == <<>>

IdleProc ==
  [pc |-> "idle", id |-> 0, token |-> "", isStale |-> FALSE, cachedData |-> null,
   albumData |-> null, imagesToDownload |-> <<>>, i |-> 0, attempt |-> 0,
   imageBuffer |-> <<>>, toSave |-> null, saveFor |-> "", writing |-> NoFile,
   openPath |-> NoPath, clobbered |-> FALSE, result |-> null,
   getImagesCalls |-> 0, axiosUrls |-> {}, okUrls |-> {}, aborted |-> FALSE]

Active(p) == proc[p].pc # "idle"

Set(p, r) == proc' = [proc EXCEPT ![p] = r]

\* fs.writeFile: open (create or truncate), then write.  A write that lands
\* in a file another writer has written since this writer opened it may
\* leave a mix of the two.
OpenForWrite(p, path, r) ==
  /\ disk' = [disk EXCEPT ![path] = Partial]
  /\ Set(p, [r EXCEPT !.openPath = path, !.clobbered = FALSE])

WriteResults(content, clobbered) ==
  IF clobbered THEN {content, Partial} ELSE {content}

WriteData(p, content, r) ==
  LET path == proc[p].openPath
  IN \E written \in WriteResults(content, proc[p].clobbered) :
       /\ disk' = [disk EXCEPT ![path] = written]
       /\ proc' = [q \in Procs |->
                    IF q = p THEN [r EXCEPT !.openPath = NoPath, !.clobbered = FALSE]
                    ELSE IF proc[q].openPath = path
                         THEN [proc[q] EXCEPT !.clobbered = TRUE]
                         ELSE proc[q]]

\* the clock at the start of the process
StartMs == 2 * TickMs

EmptyDisk == [path \in Paths |-> NoFile]

\* what an earlier run of the server has left for an album of one photo
\* that it synced at the time lastSynced
SyncedDisk(token, url, lastSynced) ==
  LET albumData == AlbumData([itemsReturned |-> 1], <<Photo(url)>>, DateOf(lastSynced))
  IN [EmptyDisk EXCEPT
        ![MetadataPath(token)] = JsonFile(CachedAlbumMetadata(albumData, lastSynced)),
        ![getImagePath(token, imageUrlToHash(url))] = BlobFile(<<0, 1>>)]

\* the album of an earlier run whose metadata.json has been damaged since
CorruptDisk(token, url) ==
  [SyncedDisk(token, url, 0) EXCEPT ![MetadataPath(token)] = Corrupt]

\* the cache directory is empty or holds the album of an earlier run,
\* synced one or two ticks before the start, or damaged
InitialDisks ==
  {EmptyDisk} \cup {SyncedDisk("t1", "u1", StartMs - k * TickMs) : k \in 1..2}
             \cup {CorruptDisk("t1", "u1")}

Init ==
  /\ now = StartMs
  /\ disk \in InitialDisks
  /\ proc = [p \in Procs |-> IdleProc]
  /\ calls = 0
  /\ state = InitialState
  /\ ret = NoCall

\* the calls in progress are interchangeable: the first takes the first slot
FreeSlot(p) ==
  /\ proc[p].pc = "idle"
  /\ \A q \in Procs : q < p => Active(q)

Start(p, token) ==
  /\ FreeSlot(p)
  /\ calls < MaxCalls
  /\ calls' = calls + 1
  /\ Set(p, [IdleProc EXCEPT !.pc = "isAlbumCacheStale", !.id = calls + 1,
                         !.token = token])
  /\ UNCHANGED <<now, disk, state, ret>>

IsAlbumCacheStale(p) ==
  /\ proc[p].pc = "isAlbumCacheStale"
  /\ Set(p, [proc[p] EXCEPT
         !.isStale = isAlbumCacheStale(disk[MetadataPath(proc[p].token)], now),
         !.pc = "loadAlbumMetadata"])
  /\ UNCHANGED <<now, disk, calls, state, ret>>

LoadAlbumMetadata(p) ==
  /\ proc[p].pc = "loadAlbumMetadata"
  /\ LET cachedData == loadAlbumMetadata(disk[MetadataPath(proc[p].token)])
     IN Set(p, [proc[p] EXCEPT
          !.cachedData = cachedData,
          !.pc = IF ~proc[p].isStale /\ cachedData # null
                 THEN "updateAlbumAccessTime" ELSE "fetchAlbumFromiCloud"])
  /\ UNCHANGED <<now, disk, calls, state, ret>>

\* updateAlbumAccessTime: load, then save what was loaded
UpdateAlbumAccessTime(p) ==
  /\ proc[p].pc = "updateAlbumAccessTime"
  /\ LET albumData == loadAlbumMetadata(disk[MetadataPath(proc[p].token)])
     IN IF albumData = null
        THEN Set(p, [proc[p] EXCEPT !.result = proc[p].cachedData, !.pc = "done"])
        ELSE Set(p, [proc[p] EXCEPT !.toSave = albumData, !.saveFor = "touch",
                                    !.pc = "saveAlbumMetadata"])
  /\ UNCHANGED <<now, disk, calls, state, ret>>

\* where the call goes once the list of images to download is known
AfterResolve(r, list) ==
  IF Len(list) > 0
  THEN [r EXCEPT !.imagesToDownload = list, !.i = 1, !.attempt = 0,
                 !.pc = "downloadImage"]
  ELSE [r EXCEPT !.imagesToDownload = list, !.toSave = r.albumData,
                 !.saveFor = "commit", !.pc = "saveAlbumMetadata"]

\* the fetch failed and the call gives up whatever the cache holds
FallbackResult_AlwaysNull(cachedData) == null

\* the fetch failed: the cached data if there is any, even if stale, else null
FallbackResult(cachedData) == cachedData

FetchAlbumFromiCloud(p) ==
  /\ proc[p].pc = "fetchAlbumFromiCloud"
  /\ \E resp \in Responses :
       LET albumData == fetchAlbumFromiCloud(resp, now)
           r == [proc[p] EXCEPT !.getImagesCalls = @ + 1, !.albumData = albumData]
       IN IF albumData = null
          THEN Set(p, [r EXCEPT !.result = FallbackResult(proc[p].cachedData),
                                !.pc = "done"])
          ELSE IF Len(albumData.photos) = 0
               THEN Set(p, AfterResolve(r, <<>>))
               ELSE Set(p, [r EXCEPT !.i = 1, !.imagesToDownload = <<>>,
                                     !.pc = "determineImagesToDownload"])
  /\ UNCHANGED <<now, disk, calls, state, ret>>

DetermineImagesToDownload(p) ==
  /\ proc[p].pc = "determineImagesToDownload"
  /\ LET r == proc[p]
         cachedPhotos == IF r.cachedData = null THEN <<>> ELSE r.cachedData.photos
         list == ResolvePhoto(disk, r.token, r.albumData.photos[r.i],
                              cachedPhotos, r.imagesToDownload)
     IN IF r.i < Len(r.albumData.photos)
        THEN Set(p, [r EXCEPT !.imagesToDownload = list, !.i = r.i + 1])
        ELSE Set(p, AfterResolve(r, list))
  /\ UNCHANGED <<now, disk, calls, state, ret>>

\* the loop index is not advanced
NextImage_SameIndex(r) ==
  IF r.i < Len(r.imagesToDownload)
  THEN [r EXCEPT !.attempt = 0, !.imageBuffer = <<>>, !.pc = "downloadImage"]
  ELSE [r EXCEPT !.toSave = r.albumData, !.saveFor = "commit",
                 !.attempt = 0, !.imageBuffer = <<>>,
                 !.pc = "saveAlbumMetadata"]

\* the next pass of the loop of downloadAndCacheImages, or its end
NextImage(r) ==
  IF r.i < Len(r.imagesToDownload)
  THEN [r EXCEPT !.i = r.i + 1, !.attempt = 0, !.imageBuffer = <<>>,
                 !.pc = "downloadImage"]
  ELSE [r EXCEPT !.toSave = r.albumData, !.saveFor = "commit",
                 !.attempt = 0, !.imageBuffer = <<>>,
                 !.pc = "saveAlbumMetadata"]

\* an image without url is skipped; otherwise one axios.get of downloadImage
DownloadImage(p) ==
  /\ proc[p].pc = "downloadImage"
  /\ LET r == proc[p]
         imageUrl == selectBestImageUrl(r.imagesToDownload[r.i])
     IN IF imageUrl = NoUrl
        THEN Set(p, NextImage(r))
        ELSE \E outcome \in AxiosOutcomes(<<r.id, r.i>>) :
               LET r1 == [r EXCEPT !.axiosUrls = @ \cup {imageUrl}]
               IN IF AxiosOk(outcome)
                  THEN Set(p, [r1 EXCEPT !.imageBuffer = outcome.data,
                                         !.pc = "cacheImage"])
                  ELSE IF NextAttempt(r.attempt) < retryAttempts
                       THEN Set(p, [r1 EXCEPT !.attempt = NextAttempt(r.attempt)])
                       ELSE Set(p, NextImage(r1))
  /\ UNCHANGED <<now, disk, calls, state, ret>>

ImagePathOf(r) ==
  getImagePath(r.token, imageUrlToHash(selectBestImageUrl(r.imagesToDownload[r.i])))

\* the existence check is left out: every call writes
cacheImageSkips_Never(content) == FALSE

\* cacheImage: fs.access, and no write when the file exists
cacheImageSkips(content) == content # NoFile

CacheImageAccess(p) ==
  /\ proc[p].pc = "cacheImage"
  /\ LET r == proc[p]
     IN IF cacheImageSkips(disk[ImagePathOf(r)])
        THEN Set(p, [r EXCEPT !.okUrls = @ \cup {selectBestImageUrl(r.imagesToDownload[r.i])},
                              !.pc = "cached"])
        ELSE Set(p, [r EXCEPT !.pc = "cacheImage_open"])
  /\ UNCHANGED <<now, disk, calls, state, ret>>

\* fs.writeFile opens the file, or rejects (permission denied, disk full)
\* and leaves it as it was; cacheImage rethrows and the catch in the loop of
\* downloadAndCacheImages counts the image as failed
CacheImageOpen(p) ==
  /\ proc[p].pc = "cacheImage_open"
  /\ \E rejected \in BOOLEAN :
       IF rejected
       THEN /\ Set(p, NextImage(proc[p]))
            /\ UNCHANGED disk
       ELSE OpenForWrite(p, ImagePathOf(proc[p]),
                         [proc[p] EXCEPT !.pc = "cacheImage_write"])
  /\ UNCHANGED <<now, calls, state, ret>>

CacheImageWrite(p) ==
  /\ proc[p].pc = "cacheImage_write"
  /\ LET r == proc[p]
     IN WriteData(p, BlobFile(r.imageBuffer),
                  [r EXCEPT !.okUrls = @ \cup {selectBestImageUrl(r.imagesToDownload[r.i])},
                            !.pc = "cached"])
  /\ UNCHANGED <<now, calls, state, ret>>

\* sleep(downloadDelay) unless this was the last image
Cached(p) ==
  /\ proc[p].pc = "cached"
  /\ Set(p, NextImage(proc[p]))
  /\ UNCHANGED <<now, disk, calls, state, ret>>

\* saveAlbumMetadata has thrown: updateAlbumAccessTime swallows the error,
\* syncAlbumWithCache catches it and returns null
SaveRejected(r) ==
  IF r.saveFor = "touch"
  THEN [r EXCEPT !.result = r.cachedData, !.pc = "done"]
  ELSE [r EXCEPT !.result = null, !.pc = "done"]

\* fs.writeFile opens the file, or rejects and leaves it as it was
SaveAlbumMetadataOpen(p) ==
  /\ proc[p].pc = "saveAlbumMetadata"
  /\ LET r == proc[p]
     IN \E rejected \in BOOLEAN :
          IF rejected
          THEN Set(p, SaveRejected(r)) /\ UNCHANGED disk
          ELSE OpenForWrite(p, MetadataPath(r.token),
                 [r EXCEPT !.writing = JsonFile(CachedAlbumMetadata(r.toSave, now)),
                           !.pc = "saveAlbumMetadata_write"])
  /\ UNCHANGED <<now, calls, state, ret>>

SaveAlbumMetadataWrite(p) ==
  /\ proc[p].pc = "saveAlbumMetadata_write"
  /\ LET r == proc[p]
     IN WriteData(p, r.writing,
          [r EXCEPT !.writing = NoFile,
                    !.result = IF r.saveFor = "touch" THEN r.cachedData ELSE r.albumData,
                    !.pc = "done"])
  /\ UNCHANGED <<now, calls, state, ret>>

\* the caller has the result
Return(p) ==
  /\ proc[p].pc = "done"
  /\ Set(p, IdleProc)
  /\ UNCHANGED <<now, disk, calls, state, ret>>

Tick ==
  /\ now < StartMs + MaxTicks * TickMs
  /\ now' = now + TickMs
  /\ UNCHANGED <<disk, proc, calls, state, ret>>

Step(p) ==
  \/ IsAlbumCacheStale(p)
  \/ LoadAlbumMetadata(p)
  \/ UpdateAlbumAccessTime(p)
  \/ FetchAlbumFromiCloud(p)
  \/ DetermineImagesToDownload(p)
  \/ DownloadImage(p)
  \/ CacheImageAccess(p)
  \/ CacheImageOpen(p)
  \/ CacheImageWrite(p)
  \/ Cached(p)
  \/ SaveAlbumMetadataOpen(p)
  \/ SaveAlbumMetadataWrite(p)
  \/ Return(p)

Next ==
  \/ \E p \in Procs, token \in Tokens : Start(p, token)
  \/ \E p \in Procs : Step(p)

Spec == Init /\ [][Next]_vars

\* the schedules in which no two calls overlap
StartAlone(p, token) ==
  /\ \A q \in Procs : ~Active(q)
  /\ Start(p, token)

NextSeq ==
  \/ \E p \in Procs, token \in Tokens : StartAlone(p, token)
  \/ \E p \in Procs : Step(p)
  \/ Tick

SpecSeq == Init /\ [][NextSeq]_vars

\* POST /api/album/:token/refresh: syncAlbumWithCache(token) is called and
\* not awaited, and 202 is returned at once
PostRefresh(p, token) ==
  /\ \A q \in Procs : ~Active(q)
  /\ Start(p, token)

\* the server when every request is a manual refresh
NextRefresh ==
  \/ \E p \in Procs, token \in Tokens : PostRefresh(p, token)
  \/ \E p \in Procs : Step(p)
  \/ Tick

SpecRefresh == Init /\ [][NextRefresh]_vars

\* the timer of fetchAlbumFromiCloud fires, albumFetchTimeout after the
\* call of getImages, which has not answered: controller.abort().  The
\* signal of the controller is given to nobody, so the await of getImages
\* goes on
AlbumFetchTimeout(p) ==
  /\ proc[p].pc = "fetchAlbumFromiCloud"
  /\ ~proc[p].aborted
  /\ Set(p, [proc[p] EXCEPT !.aborted = TRUE])
  /\ UNCHANGED <<now, disk, calls, state, ret>>

\* the server with an iCloud that may take longer than albumFetchTimeout
NextTimeout ==
  \/ \E p \in Procs, token \in Tokens : StartAlone(p, token)
  \/ \E p \in Procs : Step(p)
  \/ \E p \in Procs : AlbumFetchTimeout(p)
  \/ Tick

SpecTimeout == Init /\ [][NextTimeout]_vars

\* every continuation of a call runs once the promise it awaits has settled
FairSeq == SpecSeq /\ \A p \in Procs : WF_vars(Step(p))

\* ----------------------------------------- public/slideshow.js: events
Created(st) ==
  UNION {{<<index, k>> : k \in 1..Len(st.imgs[index])} : index \in Indices}
Loading(st) == {img \in Created(st) : st.imgs[img[1]][img[2]].status = "loading"}

\* the n images of page 0, fewer than a page, are taken in
loadImagesPage(st, n) ==
  [startSlideshow(preloadNearbyImages([st EXCEPT !.totalImages = n]))
     EXCEPT !.allPagesLoaded = TRUE]

\* the response for page 0 has arrived, with n images, fewer than a page
LoadImagesPage(n) ==
  /\ ~state.allPagesLoaded
  /\ ~state.aborted
  /\ n < IMAGES_PER_PAGE
  /\ state' =
       IF n = 0
       THEN [state EXCEPT !.allPagesLoaded = TRUE]
       ELSE loadImagesPage(state, n)
  /\ UNCHANGED <<serverVars, ret>>

\* no more than MaxSlideElements elements are ever made for one index
ElementsCapped(st) == \A index \in Indices : Len(st.imgs[index]) <= MaxSlideElements

NextSlide ==
  /\ state.totalImages # 0
  /\ ~state.aborted
  /\ state' = nextSlide(state)
  /\ ElementsCapped(state')
  /\ UNCHANGED <<serverVars, ret>>

PreviousSlide ==
  /\ state.totalImages # 0
  /\ ~state.aborted
  /\ state' = previousSlide(state)
  /\ ElementsCapped(state')
  /\ UNCHANGED <<serverVars, ret>>

\* the load of an img has succeeded
ImgOnload(img) ==
  /\ img \in Loading(state)
  /\ state' = onload([state EXCEPT !.imgs[img[1]][img[2]].status = "loaded"],
                     img[1])
  /\ UNCHANGED <<serverVars, ret>>

\* the load of an img has failed
ImgOnerror(img) ==
  /\ img \in Loading(state)
  /\ state' = onerror([state EXCEPT !.imgs[img[1]][img[2]].status = "error"],
                      img[1], img)
  /\ UNCHANGED <<serverVars, ret>>

NextLoader ==
  \/ \E n \in 0..MaxImages : LoadImagesPage(n)
  \/ NextSlide
  \/ PreviousSlide
  \/ \E img \in Created(state) : ImgOnload(img)
  \/ \E img \in Created(state) : ImgOnerror(img)

\* the page is opened on a server that has just started on an empty cache
InitLoader == Init /\ disk = EmptyDisk

SpecLoader == InitLoader /\ [][NextLoader]_vars

\* the beforeunload handler: the fetch of the page is aborted and the
\* timers are cleared (the slide is not advanced any more)
Beforeunload ==
  /\ ~state.aborted
  /\ state' = [state EXCEPT !.aborted = TRUE]
  /\ UNCHANGED <<serverVars, ret>>

\* the page is opened, used and left
NextSession ==
  \/ \E n \in 0..MaxImages : LoadImagesPage(n)
  \/ NextSlide
  \/ PreviousSlide
  \/ \E img \in Created(state) : ImgOnload(img)
  \/ \E img \in Created(state) : ImgOnerror(img)
  \/ Beforeunload

SpecSession == InitLoader /\ [][NextSession]_vars

\* the loads of the other images end in the order of their indices
NextToEnd(st, img) ==
  img[1] = 0 \/ \A other \in Loading(st) : other[1] = 0 \/ other[1] >= img[1]

\* an album of WindowImages images, more than the window holds behind the
\* last slide; a load of the first image succeeds or fails at any time, the
\* loads of the others succeed
NextWindow ==
  \/ LoadImagesPage(WindowImages)
  \/ NextSlide
  \/ PreviousSlide
  \/ \E img \in Created(state) : NextToEnd(state, img) /\ ImgOnload(img)
  \/ \E img \in Created(state) : img[1] = 0 /\ ImgOnerror(img)

SpecWindow == InitLoader /\ [][NextWindow]_vars

\* ------------------------------------------- functions taken alone
\* the thresholds of the calls: the default and two custom ones
Thresholds == {5, 60, stalenessMinutes}

\* ages in milliseconds around a threshold in minutes
EvalAges(minutes) ==
  {0, minutes * MsPerMinute - 1, minutes * MsPerMinute,
   minutes * MsPerMinute + 1, 2 * minutes * MsPerMinute}

EvalTimes == {StartMs + k * TickMs : k \in 0..MaxTicks}

\* the metadata.json of an album synced at lastSynced
SnapshotFile(lastSynced) ==
  JsonFile(CachedAlbumMetadata(
    AlbumData([itemsReturned |-> 1], <<Photo("u1")>>, DateOf(lastSynced)), lastSynced))

\* calls of isAlbumCacheStale on a snapshot of a given age, and without one
IsAlbumCacheStaleCalls ==
  {[fn |-> "isAlbumCacheStale", hasSnapshot |-> TRUE, age |-> age,
    content |-> SnapshotFile(t - age), now |-> t, stalenessMinutes |-> m] :
      t \in EvalTimes, m \in Thresholds, age \in UNION {EvalAges(k) : k \in Thresholds}}
  \cup
  {[fn |-> "isAlbumCacheStale", hasSnapshot |-> FALSE, age |-> 0,
    content |-> c, now |-> t, stalenessMinutes |-> m] :
      t \in EvalTimes, m \in Thresholds, c \in {NoFile, Corrupt}}

\* --- GET /api/album/:token/images: the page of the response
undefined == [undefined |-> TRUE]

\* a photo of a snapshot as the route reads it
AlbumImage(id, dateCreated) == [id |-> id, url |-> "u1", dateCreated |-> dateCreated]

\* a.dateCreated ? new Date(a.dateCreated).getTime() : 0
DateCreatedTime(photo) ==
  IF photo.dateCreated = undefined THEN 0 ELSE NewDate(photo.dateCreated).time

\* parseInt(req.query.x) || fallback, for a query that is a number
ParseIntOr(query, fallback) == IF query = 0 THEN fallback ELSE query

\* the photos are left in the order of the snapshot
sortedPhotos_Unsorted(photos) == photos

\* the comparator of the sort: dateB - dateA
compareByDate(a, b) == DateCreatedTime(b) - DateCreatedTime(a)

\* two sorted runs merged; of two photos the comparator does not tell
\* apart, the one of the left run stays first (the sort is stable)
merge(left, right) ==
  LET atLeft == [i \in 1..Len(left) |->
                   i + Cardinality({j \in 1..Len(right) :
                                      compareByDate(right[j], left[i]) < 0})]
      atRight == [j \in 1..Len(right) |->
                    j + Cardinality({i \in 1..Len(left) :
                                       compareByDate(left[i], right[j]) <= 0})]
  IN [k \in 1..(Len(left) + Len(right)) |->
        IF \E i \in 1..Len(left) : atLeft[i] = k
        THEN left[CHOOSE i \in 1..Len(left) : atLeft[i] = k]
        ELSE right[CHOOSE j \in 1..Len(right) : atRight[j] = k]]

RECURSIVE sortRun(_, _, _)
sortRun(photos, lo, hi) ==
  IF lo > hi THEN <<>>
  ELSE IF lo = hi THEN <<photos[lo]>>
  ELSE LET mid == (lo + hi) \div 2
       IN merge(sortRun(photos, lo, mid), sortRun(photos, mid + 1, hi))

\* [...albumData.photos].sort((a, b) => dateB - dateA)
sortedPhotos(photos) == sortRun(photos, 1, Len(photos))

\* Array.prototype.slice for 0 <= start
slice(s, start, end) ==
  IF start >= end THEN <<>> ELSE SubSeq(s, start + 1, Min(end, Len(s)))

\* the images and the hasMore of the response
listPage(photos, queryPage, queryLimit) ==
  LET page == ParseIntOr(queryPage, 0)
      limit == Min(ParseIntOr(queryLimit, DefaultLimit), MaxLimit)
      sorted == sortedPhotos(photos)
      total == Len(sorted)
      startIndex == page * limit
      endIndex == Min(startIndex + limit, total)
      pagePhotos == slice(sorted, startIndex, endIndex)
  IN [images |-> [k \in 1..Len(pagePhotos) |->
                    [id |-> pagePhotos[k].id,
                     filename |-> imageUrlToHash(pagePhotos[k].url),
                     dateCreated |-> pagePhotos[k].dateCreated]],
      total |-> total,
      hasMore |-> endIndex < total]

\* creation dates of the photos: none, or one of two days
DatesCreated == {undefined} \cup {toISOString(DateOf(k * TickMs)) : k \in 1..2}

\* the snapshots of up to MaxItems photos, and one of more than MaxLimit
SmallAlbums ==
  UNION {{[k \in 1..n |-> AlbumImage(k, d[k])] : d \in [1..n -> DatesCreated]} :
           n \in 0..MaxItems}

LargeAlbum ==
  [k \in 1..(MaxLimit + 1) |->
     AlbumImage(k, toISOString(DateOf((k % 3) * TickMs)))]

ListPageCalls ==
  {[fn |-> "listPage", photos |-> photos, page |-> page, limit |-> limit] :
     photos \in SmallAlbums, page \in 0..MaxPage, limit \in 0..MaxItems}
  \cup
  {[fn |-> "listPage", photos |-> LargeAlbum, page |-> page, limit |-> limit] :
     page \in 0..MaxPage, limit \in {MaxLimit, MaxLimit + 1}}

\* --- deleteOldAlbums(olderThanMinutes)
\* the album is judged by the time of its last sync
IsOldAlbum_BySyncTime(content, t, olderThanMinutes) ==
  /\ "json" \in DOMAIN content
  /\ AgeExceeds(NewDate(content.json.lastSynced), t, olderThanMinutes)

\* metadata.json is read and parsed (a missing or unparseable file throws
\* and the album is passed over) and ageMinutes > olderThanMinutes
IsOldAlbum(content, t, olderThanMinutes) ==
  /\ "json" \in DOMAIN content
  /\ AgeExceeds(NewDate(content.json.lastAccessed), t, olderThanMinutes)

\* entries.filter(entry => entry.isDirectory()): a directory of the model
\* is there when a file is in it
readdir(d) == {dir \in AlbumDirs : \E f \in FileNames : d[<<dir, f>>] # NoFile}

\* fs.rm(albumPath, { recursive: true, force: true })
rm(d, dir) == [path \in Paths |-> IF path[1] = dir THEN NoFile ELSE d[path]]

\* the loop over the album directories
RECURSIVE deleteOldAlbumsLoop(_, _, _, _, _)
deleteOldAlbumsLoop(d, albumDirs, t, olderThanMinutes, deletedCount) ==
  IF albumDirs = {} THEN [disk |-> d, deletedCount |-> deletedCount]
  ELSE LET albumDir == CHOOSE dir \in albumDirs : TRUE
           old == IsOldAlbum(d[<<albumDir, MetadataJson>>], t, olderThanMinutes)
       IN deleteOldAlbumsLoop(IF old THEN rm(d, albumDir) ELSE d,
                              albumDirs \ {albumDir}, t, olderThanMinutes,
                              IF old THEN deletedCount + 1 ELSE deletedCount)

deleteOldAlbums(d, t, olderThanMinutes) ==
  deleteOldAlbumsLoop(d, readdir(d), t, olderThanMinutes, 0)

\* an album directory: nothing, files without metadata.json, a damaged
\* metadata.json, one whose lastAccessed is no date, or an album synced
\* long ago and last read a given time ago
NoDateString == [text |-> "never"]

AlbumDirStates(t, minutes) ==
  LET blobs == [f \in FileNames |->
                  IF f = imageUrlToHash("u1") THEN BlobFile(<<0, 1>>) ELSE NoFile]
      synced == t - 2 * minutes * MsPerMinute
      snapshot == CachedAlbumMetadata(
                    AlbumData([itemsReturned |-> 1], <<Photo("u1")>>, DateOf(synced)), synced)
  IN {[f \in FileNames |-> NoFile], blobs,
      [blobs EXCEPT ![MetadataJson] = Corrupt],
      [blobs EXCEPT ![MetadataJson] =
         JsonFile([snapshot EXCEPT !.lastAccessed = NoDateString])]}
     \cup
     {[blobs EXCEPT ![MetadataJson] =
         JsonFile([snapshot EXCEPT !.lastAccessed = toISOString(DateOf(t - age))])] :
        age \in EvalAges(minutes)}

DeleteOldAlbumsCalls ==
  UNION {{[fn |-> "deleteOldAlbums", now |-> StartMs, olderThanMinutes |-> m,
           disk |-> [path \in Paths |->
                       IF path[1] = getAlbumCacheDir("t1") THEN a[path[2]]
                       ELSE b[path[2]]]] :
            a \in AlbumDirStates(StartMs, m), b \in AlbumDirStates(StartMs, m)} :
          m \in {60, stalenessMinutes}}

\* saveAlbumMetadata(token, data) at time t, the write going through
saveAlbumMetadata(d, token, data, t) ==
  [d EXCEPT ![MetadataPath(token)] = JsonFile(CachedAlbumMetadata(data, t))]

\* the cache after saving, at time t, an album synced twice the threshold
\* ago and one synced at t
SavedAlbums(t, minutes) ==
  saveAlbumMetadata(
    saveAlbumMetadata(EmptyDisk, "t1",
      AlbumData([itemsReturned |-> 0], <<>>, DateOf(t - 2 * minutes * MsPerMinute)), t),
    "t2", AlbumData([itemsReturned |-> 0], <<>>, DateOf(t)), t)

\* deleteOldAlbums right after the two albums were saved
DeleteSavedAlbumsCalls ==
  {[fn |-> "deleteOldAlbums", now |-> StartMs, olderThanMinutes |-> m,
    disk |-> SavedAlbums(StartMs, m)] : m \in {60, stalenessMinutes}}

\* --- syncAlbumWithCache(token): the decision to serve the cache
\* if (!isStale && cachedData), both read from the same metadata.json
servesFromCache(content, t) ==
  LET isStale == isAlbumCacheStale(content, t)
      cachedData == loadAlbumMetadata(content)
  IN ~isStale /\ cachedData # null

\* a metadata.json that parses, with the given value of lastSynced
SnapshotFileWith(lastSynced) ==
  JsonFile([metadata |-> [itemsReturned |-> 1], photos |-> <<Photo("u1")>>,
            lastSynced |-> lastSynced, lastAccessed |-> toISOString(DateOf(StartMs))])

\* snapshots synced just now and long ago, one without lastSynced and one
\* whose lastSynced is no date; no file; a file that does not parse
SyncDecisionCalls ==
  {[fn |-> "syncAlbumWithCache", content |-> content, now |-> t] :
     t \in EvalTimes,
     content \in {SnapshotFileWith(toISOString(DateOf(StartMs))),
                  SnapshotFileWith(toISOString(DateOf(0))),
                  SnapshotFileWith(undefined),
                  SnapshotFileWith(NoDateString),
                  NoFile, Corrupt}}

\* --- shuffleImages()
\* the generator goes on from where the shuffle before left it
initialSeed_Carried(hash, generator) == generator

\* var seed = hashCode(...): every shuffle starts its generator anew
initialSeed(hash, generator) == hash

\* seed = (seed * 9301 + 49297) % 233280, which the code computes exactly
\* (below 2^53); the product is taken here in two parts, 9301 = 93 * 100 + 1,
\* that stay below 2^31
nextSeed(seed) ==
  LET s == seed % 233280
  IN (((((s * 93) % 233280) * 100) % 233280) + s + 49297) % 233280

\* Math.floor(seededRandom() * (i + 1)), seededRandom() being seed / 233280
randomIndex(seed, i) == (seed * (i + 1)) \div 233280

\* images[j] is copied to images[i] and is not replaced by what was there
swap_Copy(images, i, j) == [images EXCEPT ![i + 1] = images[j + 1]]

\* temp = images[i]; images[i] = images[j]; images[j] = temp
swap(images, i, j) ==
  [images EXCEPT ![i + 1] = images[j + 1], ![j + 1] = images[i + 1]]

\* one pass of the loop of the shuffle, i and j counted from 0 as in the
\* code: j = Math.floor(random() * (i + 1)), then the swap
shuffleStep(st, i) ==
  LET drawn == nextSeed(st.seed)
  IN [images |-> swap(st.images, i, randomIndex(drawn, i)), seed |-> drawn]

\* the passes i = hi, hi - 1, ..., lo of the loop, one after the other: the
\* upper half of the passes, and then the lower half on what they leave
RECURSIVE FisherYatesRange(_, _, _)
FisherYatesRange(st, hi, lo) ==
  IF hi < lo THEN st
  ELSE IF hi = lo THEN shuffleStep(st, hi)
  ELSE CHOOSE r \in {FisherYatesRange(upper, (hi + lo) \div 2, lo) :
                       upper \in {FisherYatesRange(st, hi, ((hi + lo) \div 2) + 1)}} :
         TRUE

\* the loop of the shuffle: for (i = length - 1; i > 0; i--)
FisherYates(images, i, seed) ==
  FisherYatesRange([images |-> images, seed |-> seed], i, 1)

\* shuffleImages on the list images, hashCode(token + Date.now()) being hash
shuffleImages(images, hash, generator) ==
  FisherYates(images, Len(images) - 1, initialSeed(hash, generator))

\* values of hashCode: Math.abs of a 32 bit integer
Hashes == {0, 1, 4242, 233279, 233280, 1000000007, 2147483647}

\* two shuffles of one list with one value of the hash
ShuffleImagesCalls ==
  {[fn |-> "shuffleImages", images |-> [k \in 1..n |-> k], hash |-> h] :
     n \in 0..(MaxItems + 1), h \in Hashes}

\* the items of a page of n items that follows received items: their ids
pageItems(received, n) == [k \in 1..n |-> received + k]

\* the items that the slide elements show after preloadNearbyImages at
\* slide 0 (getOrCreateSlideElement for the indices 0 to 20): an element
\* that exists is kept, a new one takes image.url of state.images[index]
slideElements(elements, images) ==
  [i \in 1..Max(Len(elements), Min(Len(images), PRELOAD_WINDOW + 1)) |->
     IF i <= Len(elements) THEN elements[i] ELSE images[i]]

\* a full page and then a last page arriving, each followed by a shuffle
\* whose hashCode(token + Date.now()) is one of the hashes
ShufflePagesCalls ==
  {[fn |-> "shufflePages", pages |-> <<IMAGES_PER_PAGE, m>>, hashes |-> <<h1, h2>>,
    loadedPages |-> 0, images |-> <<>>, elements |-> <<>>] :
     m \in 1..MaxItems, h1 \in Hashes, h2 \in Hashes}

\* --- downloadImage(imageUrl)
retryBackoff == <<1000, 2000, 4000>>

\* every retry waits the first delay
retryDelay_First(attempt) == retryBackoff[1]

\* this.config.retryBackoff[attempt - 1] || 4000
retryDelay(attempt) ==
  IF attempt <= Len(retryBackoff) THEN retryBackoff[attempt] ELSE 4000

\* the extra wait is the same after every attempt
extraBackoff_Fixed(attempt) == 5000 * 1

\* the extra wait after a 429 or a 503: 5000 * (attempt + 1)
extraBackoff(attempt) == 5000 * (attempt + 1)

Sleep(ms) == [op |-> "sleep", n |-> ms]
Get(attempt) == [op |-> "axios.get", n |-> attempt]

\* the loop of downloadImage from the given attempt on; responses[k] is what
\* the k-th axios.get yields; events is what the call has done so far
RECURSIVE downloadImageFrom(_, _, _)
downloadImageFrom(responses, attempt, events) ==
  IF attempt >= retryAttempts
  THEN [result |-> null, events |-> events]
  ELSE LET waited == IF attempt > 0
                     THEN Append(events, Sleep(retryDelay(attempt)))
                     ELSE events
           got == Append(waited, Get(attempt))
           response == responses[attempt + 1]
       IN IF response.status = 200 /\ "data" \in DOMAIN response
          THEN [result |-> [buffer |-> response.data], events |-> got]
          ELSE IF response.status \in {429, 503}
               THEN downloadImageFrom(responses, attempt + 1,
                                      Append(got, Sleep(extraBackoff(attempt))))
               ELSE downloadImageFrom(responses, attempt + 1, got)

downloadImage(responses) == downloadImageFrom(responses, 0, <<>>)

\* what the axios.get calls of one downloadImage yield: 200 with data, 200
\* without, another 2xx status, or a rejection (429, 503, 404, or 0: no
\* response, a network error or the timeout)
DownloadImageCalls ==
  {[fn |-> "downloadImage", responses |-> responses] :
     responses \in [1..retryAttempts ->
                      {[status |-> 200, data |-> <<1, 1>>], [status |-> 200]}
                        \cup {[status |-> st] : st \in {204, 429, 503, 404, 0}}]}

\* --- determineImagesToDownload(token, newPhotos, cachedPhotos)
RECURSIVE determineImagesToDownloadFrom(_, _, _, _, _, _)
determineImagesToDownloadFrom(d, token, newPhotos, cachedPhotos, i, imagesToDownload) ==
  IF i > Len(newPhotos) THEN imagesToDownload
  ELSE determineImagesToDownloadFrom(
         d, token, newPhotos, cachedPhotos, i + 1,
         ResolvePhoto(d, token, newPhotos[i], cachedPhotos, imagesToDownload))

determineImagesToDownload(d, token, newPhotos, cachedPhotos) ==
  determineImagesToDownloadFrom(d, token, newPhotos, cachedPhotos, 1, <<>>)

\* the album directory with a file for each url of the set
DiskWithImages(token, urls) ==
  [path \in Paths |->
     IF path[1] = getAlbumCacheDir(token) /\ path[2] \in {imageUrlToHash(u) : u \in urls}
     THEN BlobFile(<<0, 1>>) ELSE NoFile]

DetermineImagesToDownloadCalls ==
  {[fn |-> "determineImagesToDownload", disk |-> DiskWithImages("t1", urls),
    token |-> "t1", newPhotos |-> newPhotos, cachedPhotos |-> cachedPhotos] :
     urls \in SUBSET Urls, newPhotos \in PhotoLists, cachedPhotos \in PhotoLists}

\* ---- showSlide and preloadNearbyImages (slideshow.js)
\* the sequences of at most n moves
RECURSIVE MovesUpTo(_)
MovesUpTo(n) ==
  IF n = 0 THEN {<<>>}
  ELSE LET shorter == MovesUpTo(n - 1)
       IN shorter \cup {Append(moves, move) :
                          moves \in shorter, move \in {"nextSlide", "previousSlide"}}

\* a slideshow of an album of some size, then some presses of the arrow keys
ShowSlideCalls ==
  {[fn |-> "showSlide", images |-> n, moves |-> moves] :
     n \in {1, MaxImages, WindowImages, WideImages}, moves \in MovesUpTo(MaxMoves)}

FnCalls ==
  SyncDecisionCalls \cup ShowSlideCalls \cup ShufflePagesCalls \cup DeleteSavedAlbumsCalls \cup IsAlbumCacheStaleCalls \cup ListPageCalls \cup DeleteOldAlbumsCalls
    \cup ShuffleImagesCalls \cup DetermineImagesToDownloadCalls
    \cup DownloadImageCalls

InitFn ==
  /\ now = StartMs
  /\ disk = EmptyDisk
  /\ proc = [p \in Procs |-> IdleProc]
  /\ calls = 0
  /\ state = InitialState
  /\ ret \in FnCalls

EvalIsAlbumCacheStale ==
  /\ ret.fn = "isAlbumCacheStale"
  /\ ~Returned(ret)
  /\ ret' = [fn |-> ret.fn, hasSnapshot |-> ret.hasSnapshot, age |-> ret.age,
             content |-> ret.content, now |-> ret.now,
             stalenessMinutes |-> ret.stalenessMinutes,
             result |-> isAlbumCacheStaleWith(ret.content, ret.now, ret.stalenessMinutes)]
  /\ UNCHANGED <<serverVars, state>>

EvalListPage ==
  /\ ret.fn = "listPage"
  /\ ~Returned(ret)
  /\ ret' = [fn |-> ret.fn, photos |-> ret.photos, page |-> ret.page,
             limit |-> ret.limit,
             result |-> listPage(ret.photos, ret.page, ret.limit)]
  /\ UNCHANGED <<serverVars, state>>

EvalDeleteOldAlbums ==
  /\ ret.fn = "deleteOldAlbums"
  /\ ~Returned(ret)
  /\ ret' = [fn |-> ret.fn, now |-> ret.now, olderThanMinutes |-> ret.olderThanMinutes,
             disk |-> ret.disk,
             result |-> deleteOldAlbums(ret.disk, ret.now, ret.olderThanMinutes)]
  /\ UNCHANGED <<serverVars, state>>

\* the first shuffle, and then the second one of the same list
EvalShuffleImages ==
  /\ ret.fn = "shuffleImages"
  /\ ~Returned(ret)
  /\ IF "first" \notin DOMAIN ret
     THEN ret' = [fn |-> ret.fn, images |-> ret.images, hash |-> ret.hash,
                  first |-> shuffleImages(ret.images, ret.hash, ret.hash)]
     ELSE ret' = [fn |-> ret.fn, images |-> ret.images, hash |-> ret.hash,
                  first |-> ret.first,
                  result |-> shuffleImages(ret.images, ret.hash, ret.first.seed)]
  /\ UNCHANGED <<serverVars, state>>

EvalDetermineImagesToDownload ==
  /\ ret.fn = "determineImagesToDownload"
  /\ ~Returned(ret)
  /\ ret' = [fn |-> ret.fn, disk |-> ret.disk, token |-> ret.token,
             newPhotos |-> ret.newPhotos, cachedPhotos |-> ret.cachedPhotos,
             result |-> determineImagesToDownload(ret.disk, ret.token,
                                                  ret.newPhotos, ret.cachedPhotos)]
  /\ UNCHANGED <<serverVars, state>>

EvalDownloadImage ==
  /\ ret.fn = "downloadImage"
  /\ ~Returned(ret)
  /\ ret' = [fn |-> ret.fn, responses |-> ret.responses,
             result |-> downloadImage(ret.responses)]
  /\ UNCHANGED <<serverVars, state>>

\* the page arrives and the slideshow starts, then one move at a time
EvalShowSlide ==
  /\ ret.fn = "showSlide"
  /\ ~Returned(ret)
  /\ IF state.totalImages = 0
     THEN /\ state' = loadImagesPage(state, ret.images)
          /\ ret' = ret
     ELSE IF ret.moves # <<>>
          THEN /\ state' = IF Head(ret.moves) = "nextSlide"
                           THEN nextSlide(state) ELSE previousSlide(state)
               /\ ret' = [ret EXCEPT !.moves = Tail(@)]
          ELSE /\ state' = state
               /\ ret' = [fn |-> ret.fn, images |-> ret.images, moves |-> ret.moves,
                          result |-> state.currentIndex]
  /\ UNCHANGED serverVars

\* loadImagesPage on the arrival of a page: the images are pushed to the
\* list, the whole list is shuffled and preloadNearbyImages is run
EvalShufflePages ==
  /\ ret.fn = "shufflePages"
  /\ ~Returned(ret)
  /\ LET page == ret.loadedPages + 1
         pushed == ret.images \o pageItems(Len(ret.images), ret.pages[page])
         shuffled == shuffleImages(pushed, ret.hashes[page], ret.hashes[page]).images
     IN IF page < Len(ret.pages)
        THEN ret' = [ret EXCEPT !.loadedPages = page, !.images = shuffled,
                                !.elements = slideElements(@, shuffled)]
        ELSE ret' = [fn |-> ret.fn, pages |-> ret.pages, hashes |-> ret.hashes,
                     loadedPages |-> page, images |-> shuffled,
                     elements |-> slideElements(ret.elements, shuffled),
                     result |-> Len(shuffled)]
  /\ UNCHANGED <<serverVars, state>>

EvalSyncDecision ==
  /\ ret.fn = "syncAlbumWithCache"
  /\ ~Returned(ret)
  /\ ret' = [fn |-> ret.fn, content |-> ret.content, now |-> ret.now,
             result |-> [served |-> servesFromCache(ret.content, ret.now)]]
  /\ UNCHANGED <<serverVars, state>>

NextFn ==
  \/ EvalSyncDecision
  \/ EvalShufflePages
  \/ EvalShowSlide
  \/ EvalDownloadImage
  \/ EvalDetermineImagesToDownload
  \/ EvalIsAlbumCacheStale
  \/ EvalListPage
  \/ EvalDeleteOldAlbums
  \/ EvalShuffleImages

SpecFn == InitFn /\ [][NextFn]_vars

\* --- the cleanup job beside the server
\* deleteOldAlbums(1440) run from cron in a process of its own, here at a
\* moment when no file is open for writing
DeleteOldAlbums ==
  /\ \A p \in Procs : proc[p].openPath = NoPath
  /\ disk' = deleteOldAlbums(disk, now, stalenessMinutes).disk
  /\ UNCHANGED <<now, proc, calls, state, ret>>

NextCleanup ==
  \/ \E p \in Procs, token \in Tokens : StartAlone(p, token)
  \/ \E p \in Procs : Step(p)
  \/ Tick
  \/ DeleteOldAlbums

SpecCleanup == Init /\ [][NextCleanup]_vars

\* ------------------------------------ the pages of the list (slideshow.js)
\* ret holds the client's paging state: the snapshot on the server, the
\* list, loadedPages, loadingNextBatch, allPagesLoaded, the pages whose
\* fetch is in flight, the response on its way back, whether the prefetch
\* timer is set, and the pages requested so far
\* the page requested next is the one just loaded
loadedPagesAfter_Same(page) == page

\* state.loadedPages = page + 1
loadedPagesAfter(page) == page + 1

\* albums of no image, of one, of a page less one, of a page, of a page and
\* one, of two pages and of two pages and one
PagedAlbums ==
  {[k \in 1..n |-> AlbumImage(k, toISOString(DateOf((k % 3) * TickMs)))] :
     n \in {0, 1, IMAGES_PER_PAGE - 1, IMAGES_PER_PAGE, IMAGES_PER_PAGE + 1,
            2 * IMAGES_PER_PAGE, 2 * IMAGES_PER_PAGE + 1}}

InitPages ==
  /\ now = StartMs
  /\ disk = EmptyDisk
  /\ proc = [p \in Procs |-> IdleProc]
  /\ calls = 0
  /\ state = InitialState
  /\ ret \in {[fn |-> "loadImagesPage", photos |-> photos, images |-> <<>>,
               loadedPages |-> 0, loadingNextBatch |-> FALSE,
               allPagesLoaded |-> FALSE, inFlight |-> {}, response |-> null,
               timer |-> FALSE, requested |-> <<>>,
               listing |-> [page \in 0..(MaxPage + 1) |->
                              listPage(photos, page, IMAGES_PER_PAGE)]] :
             photos \in PagedAlbums}

\* loadImagesPage(page) up to the fetch
fetchImagesPage(r, page) ==
  IF r.loadingNextBatch
  THEN r
  ELSE [r EXCEPT !.loadingNextBatch = TRUE,
                 !.inFlight = @ \cup {page},
                 !.requested = Append(@, page)]

\* init(): loadImagesPage(0)
LoadFirstPage ==
  /\ ret.requested = <<>>
  /\ ret' = fetchImagesPage(ret, 0)
  /\ UNCHANGED <<serverVars, state>>

\* the then-handler of the fetch of a page, data being the response: the
\* images are pushed, the list is shuffled, and the timer of the next page
\* is set after a full page
pageLoaded(r, page, data, hash) ==
  LET pushed == r.images \o [k \in 1..Len(data.images) |-> data.images[k].id]
      last == Len(data.images) < IMAGES_PER_PAGE
  IN IF Len(data.images) = 0
     THEN [r EXCEPT !.loadingNextBatch = FALSE, !.allPagesLoaded = TRUE]
     ELSE [r EXCEPT !.loadingNextBatch = FALSE,
                    !.images = shuffleImages(pushed, hash, hash).images,
                    !.loadedPages = loadedPagesAfter(page),
                    !.allPagesLoaded = last,
                    !.timer = ~last]

\* values of hashCode(token + Date.now()) at the shuffles of the pages
PageHashes == {0, 4242, 2147483647}

\* GET /api/album/:token/images?page=..&limit=50 answers with the page of
\* the snapshot; the snapshot does not change, so that the answers are the
\* listing of the snapshot taken at the start
ImagesServed(page) ==
  /\ page \in ret.inFlight
  /\ ret.response = null
  /\ ret' = [ret EXCEPT !.response = [page |-> page, data |-> ret.listing[page]]]
  /\ UNCHANGED <<serverVars, state>>

\* the response of the fetch of a page has arrived
PageLoaded ==
  /\ ret.response # null
  /\ \E hash \in PageHashes :
       ret' = pageLoaded([ret EXCEPT !.inFlight = @ \ {ret.response.page},
                                     !.response = null],
                         ret.response.page, ret.response.data, hash)
  /\ UNCHANGED <<serverVars, state>>

\* the timer set 1500 ms before fires
PrefetchTimer ==
  /\ ret.timer
  /\ ret' = IF ~ret.allPagesLoaded /\ ~ret.loadingNextBatch
            THEN fetchImagesPage([ret EXCEPT !.timer = FALSE], ret.loadedPages)
            ELSE [ret EXCEPT !.timer = FALSE]
  /\ UNCHANGED <<serverVars, state>>

NextPages ==
  \/ LoadFirstPage
  \/ \E page \in 0..(MaxPage + 1) : ImagesServed(page)
  \/ PageLoaded
  \/ PrefetchTimer

\* every listing call is answered and the timer fires
FairPages == InitPages /\ [][NextPages]_vars /\ WF_vars(NextPages)

\* ================================================================ claims
Persisted(token) == loadAlbumMetadata(disk[MetadataPath(token)])

\* the persisted snapshot of the token is strictly inside the staleness window
WithinWindow(token) ==
  /\ Persisted(token) # null
  /\ ~isNaN(Persisted(token).lastSynced)
  /\ now - Persisted(token).lastSynced.time < stalenessMinutes * MsPerMinute

RemoteCallStep(p) ==
  \/ proc'[p].getImagesCalls > proc[p].getImagesCalls
  \/ proc'[p].axiosUrls # proc[p].axiosUrls /\ proc'[p].axiosUrls # {}

ImageFile(token, url) == disk[getImagePath(token, imageUrlToHash(url))]
HasBlob(token, url) == "bytes" \in DOMAIN ImageFile(token, url)
UrlsOf(photos) == {ph.url : ph \in Range(photos)}

\* C1: a call made while the persisted snapshot is within the staleness
\* window makes no remote call (no getImages, no axios.get happens while the
\* snapshot is within the window) and a call that ends without a remote call
\* returns the persisted snapshot, equal in metadata, photos and lastSynced.
C1_FreshServedFromCache ==
  /\ [][\A p \in Procs : RemoteCallStep(p) => ~WithinWindow(proc[p].token)]_vars
  /\ [](\A p \in Procs :
          (proc[p].pc = "done" /\ proc[p].getImagesCalls = 0)
            => /\ proc[p].result # null
               /\ proc[p].result = Persisted(proc[p].token)
               /\ proc[p].axiosUrls = {})

C1_Witness ==
  \E p \in Procs :
    /\ proc[p].pc = "done"
    /\ proc[p].getImagesCalls = 0
    /\ WithinWindow(proc[p].token)
    /\ now > Persisted(proc[p].token).lastSynced.time
    /\ Len(proc[p].result.photos) = 2

\* the metadata file of the token is there and parses
HasSnapshot(token) == "json" \in DOMAIN disk[MetadataPath(token)]

FetchFailed(r) == r.pc = "done" /\ r.getImagesCalls = 1 /\ r.albumData = null

\* C2: when the snapshot is stale or missing and the remote fetch fails, the
\* call returns the previous snapshot if there is one, unchanged, and null
\* only if there is none; no step of such a call changes the disk.
C2_StaleFallback ==
  /\ [](\A p \in Procs :
          FetchFailed(proc[p])
            => /\ proc[p].result = Persisted(proc[p].token)
               /\ ((proc[p].result = null)
                     <=> ~HasSnapshot(proc[p].token)))
  /\ [][\A p \in Procs :
          (/\ proc[p].pc \in {"isAlbumCacheStale", "loadAlbumMetadata",
                               "fetchAlbumFromiCloud"}
           /\ proc'[p] # proc[p])
            => disk' = disk]_vars

C2_Witness ==
  \E p \in Procs :
    /\ FetchFailed(proc[p])
    /\ proc[p].result # null
    /\ Len(proc[p].result.photos) = 2
    /\ now - proc[p].result.lastSynced.time > stalenessMinutes * MsPerMinute

Committed(r) == r.pc = "done" /\ r.albumData # null /\ r.result # null

\* the urls whose every download, or the write of the file, failed in the cycle
FailedUrls(r) == UrlsOf(r.imagesToDownload) \ r.okUrls

JustResolved(r) ==
  \/ r.pc = "downloadImage" /\ r.i = 1 /\ r.attempt = 0 /\ r.axiosUrls = {}
  \/ r.pc = "saveAlbumMetadata" /\ r.saveFor = "commit" /\ r.imagesToDownload = <<>>

CachedUrls(r) == IF r.cachedData = null THEN {} ELSE UrlsOf(r.cachedData.photos)

\* the photos of the listing that are not in the cached list or have no file
MissingPhotos(r) ==
  LET Needed(ph) == ph.url \notin CachedUrls(r) \/ ImageFile(r.token, ph.url) = NoFile
  IN SelectSeq(r.albumData.photos, Needed)

C4_OneSyncPerKey ==
  \A p, q \in Procs :
    (p # q /\ Active(p) /\ Active(q) /\ proc[p].token = proc[q].token)
      => ~(proc[p].getImagesCalls > 0 /\ proc[q].getImagesCalls > 0)

\* C5: the number of imgs whose load has started and has not ended is never
\* above MAX_CONCURRENT_LOADS.
C5_LoaderConcurrencyCap ==
  Cardinality(Loading(state)) <= MAX_CONCURRENT_LOADS

\* the number of loads started for an index since the page was opened
RECURSIVE SumLoads(_, _)
SumLoads(imgsOfIndex, k) ==
  IF k = 0 THEN 0 ELSE imgsOfIndex[k].loads + SumLoads(imgsOfIndex, k - 1)

LoadsStarted(st, index) == SumLoads(st.imgs[index], Len(st.imgs[index]))

\* C6: no step starts a load for an index that is recorded in failedImages.
C6_NoLoadAfterPermanentFailure ==
  [][\A index \in state.failedImages : LoadsStarted(state', index) = LoadsStarted(state, index)]_vars

\* the metadata file of the token is there and does not parse
Unparseable(token) ==
  disk[MetadataPath(token)] # NoFile /\ ~HasSnapshot(token)

\* C11: loading a metadata file that does not parse gives what loading a
\* missing file gives (null; the staleness check says stale), and a call
\* that finds such a file goes on as if there were none: it has no cached
\* data, fetches the listing, and returns null if the fetch fails.
C11_UnparseableIsNotFound ==
  /\ [](\A token \in Tokens :
          Unparseable(token)
            => /\ Persisted(token) = loadAlbumMetadata(NoFile)
               /\ isAlbumCacheStale(disk[MetadataPath(token)], now)
                    = isAlbumCacheStale(NoFile, now))
  /\ [][\A p \in Procs :
          (/\ proc[p].pc \in {"isAlbumCacheStale", "loadAlbumMetadata"}
           /\ proc'[p] # proc[p]
           /\ Unparseable(proc[p].token))
            => /\ proc'[p].isStale
               /\ proc'[p].cachedData = null
               /\ proc'[p].pc \in {"loadAlbumMetadata", "fetchAlbumFromiCloud"}]_vars
  /\ [](\A p \in Procs :
          (FetchFailed(proc[p]) /\ Unparseable(proc[p].token))
            => proc[p].result = null)

\* a call on an album with a damaged metadata file has ended, the fetch failed
C11_Witness ==
  \E p \in Procs :
    /\ FetchFailed(proc[p])
    /\ Unparseable(proc[p].token)
    /\ proc[p].result = null

\* the step of a call in which the file system rejects the write of an image
\* or of the snapshot that the call commits
WriteRejectedStep(p) ==
  \/ /\ proc[p].pc = "cacheImage_open"
     /\ proc'[p] # proc[p]
     /\ proc'[p].pc # "cacheImage_write"
  \/ /\ proc[p].pc = "saveAlbumMetadata"
     /\ proc[p].saveFor = "commit"
     /\ proc'[p].pc = "done"

\* C12: when the file system rejects the write of an image or of the
\* snapshot, the call ends there with an error, which is neither null nor a
\* snapshot.
C12_StorageErrorSurfaced ==
  [][\A p \in Procs :
       WriteRejectedStep(p)
         => /\ proc'[p].pc = "done"
            /\ "error" \in DOMAIN proc'[p].result]_vars

\* C13: isAlbumCacheStale says stale for a snapshot of age T exactly when T
\* is above the threshold of the call, the default one or a custom one, and
\* always says stale when there is no snapshot.
C13_StaleIffAgeExceeds ==
  (ret.fn = "isAlbumCacheStale" /\ Returned(ret))
    => IF ret.hasSnapshot
       THEN ret.result <=> (ret.age > ret.stalenessMinutes * MsPerMinute)
       ELSE ret.result = TRUE

\* a snapshot of exactly the age of a custom threshold is not stale
C13_Witness ==
  /\ ret.fn = "isAlbumCacheStale"
  /\ Returned(ret)
  /\ ret.hasSnapshot
  /\ ret.stalenessMinutes # stalenessMinutes
  /\ ret.age = ret.stalenessMinutes * MsPerMinute
  /\ ret.result = FALSE

\* photo i comes before photo j in the order by creation date, newest
\* first (a photo without date last), photos of one date in snapshot order
Before(photos, i, j) ==
  \/ DateCreatedTime(photos[i]) > DateCreatedTime(photos[j])
  \/ DateCreatedTime(photos[i]) = DateCreatedTime(photos[j]) /\ i < j

\* the ids of the photos in that order
IdsByDate(photos) ==
  [k \in 1..Len(photos) |->
     photos[CHOOSE i \in 1..Len(photos) :
              Cardinality({j \in 1..Len(photos) : Before(photos, j, i)}) = k - 1].id]

\* the ids at the positions [p*n, min(p*n + n, total)) of that order
PageIds(photos, p, n) ==
  LET total == Len(photos)
      end == Min(p * n + n, total)
  IN [k \in 1..Max(0, end - p * n) |-> IdsByDate(photos)[p * n + k]]

ReturnedIds(call) == [k \in 1..Len(call.result.images) |-> call.result.images[k].id]

\* the page size the route works with: 20 for 0, at most 100
EffectiveLimit(n) == IF n = 0 THEN DefaultLimit ELSE Min(n, MaxLimit)

\* C14: the response for page p with limit n holds the photos at the
\* positions [p*m, min(p*m + m, total)) of the snapshot's photos ordered by
\* creation date, newest first, and hasMore exactly when p*m + m < total,
\* where m is n, or 20 when n is 0, and at most 100.
C14_ListPage ==
  (ret.fn = "listPage" /\ Returned(ret))
    => LET m == EffectiveLimit(ret.limit)
       IN /\ ReturnedIds(ret) = PageIds(ret.photos, ret.page, m)
          /\ ret.result.hasMore <=> (ret.page * m + m < Len(ret.photos))

\* C14 as stated: the page holds the positions [p*n, min(p*n + n, total))
\* and hasMore is p*n + n < total, for the n of the request.
C14_PageOfRequestedSize ==
  (ret.fn = "listPage" /\ Returned(ret))
    => /\ ReturnedIds(ret) = PageIds(ret.photos, ret.page, ret.limit)
       /\ ret.result.hasMore <=> (ret.page * ret.limit + ret.limit < Len(ret.photos))

\* the last page of an album of three photos whose order by date is not
\* the order of the snapshot
C14_Witness ==
  /\ ret.fn = "listPage"
  /\ Returned(ret)
  /\ Len(ret.photos) = 3
  /\ ret.limit = 2
  /\ ret.page = 1
  /\ ReturnedIds(ret) = <<1>>
  /\ ~ret.result.hasMore

\* the album directories of d whose metadata.json holds a last-accessed
\* time more than the given minutes before t
OlderThan(d, t, minutes) ==
  {dir \in AlbumDirs :
     LET content == d[<<dir, MetadataJson>>]
     IN /\ "json" \in DOMAIN content
        /\ "iso" \in DOMAIN content.json.lastAccessed
        /\ t - content.json.lastAccessed.iso > minutes * MsPerMinute}

BlobIn(d, token, url) == "bytes" \in DOMAIN d[getImagePath(token, imageUrlToHash(url))]

TouchWriteStep(p) ==
  /\ proc[p].pc = "saveAlbumMetadata_write"
  /\ proc[p].saveFor = "touch"
  /\ proc'[p].pc = "done"

\* C16: when updateAlbumAccessTime writes metadata.json of an album for
\* which another call has committed a sync, the record it leaves does not
\* carry a lastSynced older than the committed one: a newly committed
\* snapshot is not replaced by an older one.
C16_TouchKeepsCommitted ==
  [][\A p \in Procs, q \in Procs :
       LET after == disk'[MetadataPath(proc[p].token)]
       IN (/\ TouchWriteStep(p)
           /\ q # p
           /\ Committed(proc[q])
           /\ proc[q].token = proc[p].token
           /\ "json" \in DOMAIN after)
          => NewDate(after.json.lastSynced).time >= proc[q].albumData.lastSynced.time]_vars

C18_WindowEviction ==
  \A index \in Indices :
    state.slideshow[index] # NoElement
      => /\ index >= state.currentIndex - PreloadBehind - EvictMargin
         /\ index <= state.currentIndex + PRELOAD_WINDOW + EvictMargin

\* C19: once the beforeunload handler has run, no remote call of the page
\* is outstanding: no load of an image is in flight.
C19_TeardownCancelsAll ==
  state.aborted => Loading(state) = {}

\* C20: the sync started by a manual refresh fetches the album from
\* iCloud whatever the age of the cached snapshot: when it has ended, it
\* has called getImages.
C20_RefreshBypassesStaleness ==
  \A p \in Procs : proc[p].pc = "done" => proc[p].getImagesCalls > 0

\* C21: determineImagesToDownload returns, in the order of the listing, the
\* photos whose url is not in the cached list and those whose url is in it
\* but has no file; it returns no photo that is in the cached list and has a
\* file, and all photos when the cached list is empty.
C21_DeltaResolver ==
  (ret.fn = "determineImagesToDownload" /\ Returned(ret))
    => LET listed(ph) == ph.url \in UrlsOf(ret.cachedPhotos)
           stored(ph) == BlobIn(ret.disk, ret.token, ph.url)
           absent(ph) == ~listed(ph)
           lost(ph) == listed(ph) /\ ~stored(ph)
           wanted(ph) == absent(ph) \/ lost(ph)
       IN /\ ret.result = SelectSeq(ret.newPhotos, wanted)
          /\ \A ph \in Range(ret.result) : ~(listed(ph) /\ stored(ph))
          /\ ret.cachedPhotos = <<>> => ret.result = ret.newPhotos

\* of two listed photos, both in the cached list, the one without file is
\* returned and the one with its file is not
C21_Witness ==
  /\ ret.fn = "determineImagesToDownload"
  /\ Returned(ret)
  /\ ret.newPhotos = <<Photo("u1"), Photo("u2")>>
  /\ UrlsOf(ret.cachedPhotos) = {"u1", "u2"}
  /\ BlobIn(ret.disk, ret.token, "u1")
  /\ ~BlobIn(ret.disk, ret.token, "u2")
  /\ ret.result = <<Photo("u2")>>

\* the step in which an axios.get of call p has answered with the image
DownloadedStep(p) ==
  proc[p].pc = "downloadImage" /\ proc'[p].pc = "cacheImage"

\* C22: a call fetches the image of a url at most once with success: no
\* axios.get succeeds for a url whose image the same call has already
\* downloaded and stored.
C22_DuplicateDownloadedOnce ==
  [][\A p \in Procs :
       DownloadedStep(p)
         => selectBestImageUrl(proc[p].imagesToDownload[proc[p].i]) \notin proc[p].okUrls]_vars

\* the positions of the axios.get calls among the events of a download
GetsAt(events) == {k \in 1..Len(events) : events[k].op = "axios.get"}

\* the attempts that got the image
Successes(responses) ==
  {k \in 1..Len(responses) :
     responses[k].status = 200 /\ "data" \in DOMAIN responses[k]}

\* C23: downloadImage makes at most retryAttempts (3) axios.get calls: as
\* many as it takes to the first one that succeeds, whose bytes it returns,
\* and all three when none succeeds, whatever the failures are, and then it
\* returns null; the call before the 2nd get is a sleep of 1000 ms and the
\* one before the 3rd a sleep of 2000 ms.
C23_DownloadRetries ==
  (ret.fn = "downloadImage" /\ Returned(ret))
    => LET events == ret.result.events
           gets == GetsAt(events)
           ok == Successes(ret.responses)
           first == CHOOSE k \in ok : \A j \in ok : k <= j
       IN /\ Cardinality(gets) <= 3
          /\ Cardinality(gets) = IF ok = {} THEN 3 ELSE first
          /\ ret.result.result =
               IF ok = {} THEN null ELSE [buffer |-> ret.responses[first].data]
          /\ \A k \in gets :
               /\ events[k].n = 1 => events[k - 1] = Sleep(1000)
               /\ events[k].n = 2 => events[k - 1] = Sleep(2000)

\* three attempts that failed by no response, by a status that is not 200
\* and by rate limiting
C23_Witness ==
  /\ ret.fn = "downloadImage"
  /\ Returned(ret)
  /\ ret.responses = <<[status |-> 0], [status |-> 204], [status |-> 429]>>
  /\ ret.result.result = null
  /\ Cardinality(GetsAt(ret.result.events)) = 3

\* C32: a 429 or a 503 on the n-th axios.get (n = 1, 2, 3) is followed by a
\* sleep of 5000 * n ms; when n < 3 the usual sleep of the next attempt and
\* that attempt follow it; any other failure is followed by the usual sleep
\* alone; and there are never more than 3 axios.get calls.
C32_RateLimitBackoff ==
  (ret.fn = "downloadImage" /\ Returned(ret))
    => LET events == ret.result.events
           gets == GetsAt(events)
       IN /\ Cardinality(gets) <= retryAttempts
          /\ \A k \in gets :
               LET n == events[k].n + 1
                   response == ret.responses[n]
               IN IF response.status \in {429, 503}
                  THEN /\ Len(events) > k
                       /\ events[k + 1] = Sleep(5000 * n)
                       /\ n < retryAttempts =>
                            /\ Len(events) = k + 3 \/ Len(events) > k + 3
                            /\ events[k + 2] = Sleep(retryBackoff[n])
                            /\ events[k + 3] = Get(n)
                       /\ n = retryAttempts => Len(events) = k + 1
                  ELSE IF response.status = 200 /\ "data" \in DOMAIN response
                       THEN Len(events) = k
                       ELSE IF n < retryAttempts
                            THEN /\ events[k + 1] = Sleep(retryBackoff[n])
                                 /\ events[k + 2] = Get(n)
                            ELSE Len(events) = k

\* rate limited at the first attempt, unavailable at the second, and then
\* the image: sleeps of 5000, 1000, 10000 and 2000 ms between three attempts
C32_Witness ==
  /\ ret.fn = "downloadImage"
  /\ Returned(ret)
  /\ ret.responses = <<[status |-> 429], [status |-> 503], [status |-> 200, data |-> <<1, 1>>]>>
  /\ ret.result.events =
       <<Get(0), Sleep(5000), Sleep(1000), Get(1), Sleep(10000), Sleep(2000), Get(2)>>
  /\ ret.result.result = [buffer |-> <<1, 1>>]

\* C24: once the timeout of the album fetch has expired, the call does not
\* wait for getImages any more: it has gone on to the fallback.
C24_FetchTimeoutFallsBack ==
  \A p \in Procs : ~(proc[p].pc = "fetchAlbumFromiCloud" /\ proc[p].aborted)

\* a call is between its staleness check and the end of its commit
SyncInProgress(r) == r.pc \notin {"idle", "done"}

\* C25: no file of an album is deleted while a sync of that album is in
\* progress.
C25_NoEvictionDuringSync ==
  [][\A p \in Procs :
       SyncInProgress(proc[p])
         => \A f \in FileNames :
              LET path == <<getAlbumCacheDir(proc[p].token), f>>
              IN disk[path] # NoFile => disk'[path] # NoFile]_vars

\* C26: an image file that holds its bytes is never opened for writing
\* again and never changes, whatever way the calls overlap.
C26_StoreEntryWriteOnce ==
  [][\A t \in Tokens, u \in Urls :
       LET path == getImagePath(t, imageUrlToHash(u))
       IN "bytes" \in DOMAIN disk[path]
            => /\ disk'[path] = disk[path]
               /\ \A p \in Procs : proc'[p].openPath = path => proc[p].openPath = path]_vars

\* the number of loads started so far for an img, 0 before it is made
LoadsOf(st, img) ==
  IF img[2] <= Len(st.imgs[img[1]]) THEN st.imgs[img[1]][img[2]].loads ELSE 0

C28_OneRetryPerItem ==
  \A img \in Created(state) : LoadsOf(state, img) <= MAX_IMAGE_RETRIES + 1

\* C29: no slide element is in the view for an index recorded as
\* permanently failed.
C29_NoElementForFailedIndex ==
  \A index \in state.failedImages : state.slideshow[index] = NoElement

\* the indices of the window around the current slide
WindowOf(st) ==
  Max(0, st.currentIndex - PreloadBehind) ..
    Min(st.totalImages - 1, st.currentIndex + PRELOAD_WINDOW)

Resident(st, img) ==
  st.slideshow[img[1]] = img \/ st.imageElements[img[1]] = img

\* C31: the load of an element removed for lying outside the outer window
\* is cancelled: no img that is no longer resident waits in the queue or
\* has a load in flight.
C31_EvictionCancelsLoad ==
  /\ \A img \in Loading(state) : Resident(state, img)
  /\ \A j \in 1..Len(state.imageLoadQueue) :
       Resident(state, state.imageLoadQueue[j].element)

\* the step in which call p, its downloads over, begins to write the snapshot
CommitStep(p) ==
  /\ proc[p].pc = "saveAlbumMetadata"
  /\ proc[p].saveFor = "commit"
  /\ proc'[p].pc = "saveAlbumMetadata_write"

\* C33: the snapshot a sync commits carries as lastSynced the time of the
\* commit, so that its age is zero when it is written.
C33_LastSyncedIsCommitTime ==
  [][\A p \in Procs :
       CommitStep(p) => proc'[p].writing.json.lastSynced = toISOString(DateOf(now))]_vars

\* C34: isAlbumCacheStale says stale for a snapshot whose age is exactly
\* the threshold of the call.
C34_BoundaryIsStale ==
  (/\ ret.fn = "isAlbumCacheStale"
   /\ Returned(ret)
   /\ ret.hasSnapshot
   /\ ret.age = ret.stalenessMinutes * MsPerMinute)
    => ret.result = TRUE

\* C35: after an album synced longer ago than the threshold and one synced
\* just now have been saved, deleteOldAlbums(threshold) removes the first,
\* whose snapshot can no longer be loaded, keeps the second and returns 1.
C35_DeletesOldSavedAlbum ==
  (/\ ret.fn = "deleteOldAlbums"
   /\ Returned(ret)
   /\ ret.disk = SavedAlbums(ret.now, ret.olderThanMinutes))
    => /\ ret.result.deletedCount = 1
       /\ loadAlbumMetadata(ret.result.disk[MetadataPath("t1")]) = null
       /\ loadAlbumMetadata(ret.result.disk[MetadataPath("t2")]) # null

\* C36: when call p goes on to the next image after an axios.get has
\* delivered the current one, it does so through the sleep of downloadDelay.
C36_DelayAfterDownload ==
  [][\A p \in Procs :
       (/\ proc'[p].pc = "downloadImage"
        /\ proc'[p].i = proc[p].i + 1
        /\ proc[p].imageBuffer # <<>>)
         => proc[p].pc = "cached"]_vars

\* the number of items of the pages received so far
ReceivedItems(call) ==
  IF call.loadedPages = 0 THEN 0
  ELSE IF call.loadedPages = 1 THEN call.pages[1]
       ELSE call.pages[1] + call.pages[2]

\* C37: after every page has been pushed and the list shuffled, the list
\* holds every item received so far exactly once: it is as long as the
\* number of items received and no item is missing from it.
C37_ShuffleIsPermutation ==
  ret.fn = "shufflePages"
    => /\ Len(ret.images) = ReceivedItems(ret)
       /\ Range(ret.images) = 1..ReceivedItems(ret)

\* a page of 50 and one of 3 items: the 53 items are in the list, an item
\* of the second page among the first 50 and one of the first page after them
C37_Witness ==
  /\ ret.fn = "shufflePages"
  /\ Returned(ret)
  /\ ret.pages = <<IMAGES_PER_PAGE, MaxItems>>
  /\ Len(ret.images) = IMAGES_PER_PAGE + MaxItems
  /\ \E k \in 1..IMAGES_PER_PAGE : ret.images[k] > IMAGES_PER_PAGE
  /\ \E k \in (IMAGES_PER_PAGE + 1)..Len(ret.images) : ret.images[k] <= IMAGES_PER_PAGE

\* C38: the slide element resident for an index shows the item that is at
\* that index of the list, also after a later page has been pushed and the
\* list shuffled again.
C38_ElementShowsListItem ==
  ret.fn = "shufflePages"
    => \A i \in 1..Len(ret.elements) : ret.elements[i] = ret.images[i]

\* C39: a snapshot whose record parses but whose lastSynced is missing or
\* is no valid date is not served as fresh: syncAlbumWithCache goes on to
\* the remote fetch.
C39_InvalidLastSyncedNotFresh ==
  (/\ ret.fn = "syncAlbumWithCache"
   /\ Returned(ret)
   /\ "json" \in DOMAIN ret.content
   /\ isNaN(NewDate(ret.content.json.lastSynced)))
    => ~ret.result.served

\* C40: the pages are requested in increasing order from 0, each once, with
\* at most one fetch in flight; the client ends up with all pages marked as
\* loaded, and its list then holds every image of the snapshot exactly once.
C40_AllPagesLoadedOnce ==
  /\ [](/\ \A k \in 1..Len(ret.requested) : ret.requested[k] = k - 1
        /\ Cardinality(ret.inFlight) <= 1
        /\ ret.allPagesLoaded =>
             /\ Len(ret.images) = Len(ret.photos)
             /\ Range(ret.images) = {ret.photos[k].id : k \in 1..Len(ret.photos)})
  /\ <>[](ret.allPagesLoaded /\ ret.inFlight = {} /\ ~ret.timer)

\* an album of two full pages: the pages 0, 1 and 2 have been requested,
\* the last came back empty and the list has the 100 images
C40_Witness ==
  /\ ret.fn = "loadImagesPage"
  /\ Len(ret.photos) = 2 * IMAGES_PER_PAGE
  /\ ret.requested = <<0, 1, 2>>
  /\ ret.allPagesLoaded
  /\ Len(ret.images) = 2 * IMAGES_PER_PAGE

\* C7: every call ends, with a snapshot or with null.
C7_SyncTerminates ==
  /\ \A p \in Procs : Active(p) ~> (proc[p].pc = "done")
  /\ [](\A p \in Procs :
          proc[p].pc = "done"
            => \/ proc[p].result = null
               \/ proc[p].result \in {proc[p].albumData, proc[p].cachedData})

\* a call whose downloads all failed at every attempt has ended
C7_Witness ==
  \E p \in Procs :
    /\ proc[p].pc = "done"
    /\ proc[p].albumData # null
    /\ Len(proc[p].imagesToDownload) = 2
    /\ proc[p].okUrls = {}

ImagePaths == {getImagePath(t, imageUrlToHash(u)) : t \in Tokens, u \in Urls}

\* C8: a cacheImage call for a file that exists leaves the disk as it is and
\* returns; the bytes of a stored image never change afterwards.
C8_PutIdempotent ==
  /\ [][\A path \in ImagePaths :
          "bytes" \in DOMAIN disk[path] => disk'[path] = disk[path]]_vars
  /\ [][\A p \in Procs :
          (proc[p].pc = "cacheImage" /\ proc'[p] # proc[p]
             /\ disk[ImagePathOf(proc[p])] # NoFile)
            => (disk' = disk /\ proc'[p].pc = "cached")]_vars

\* the second put of a url, with other bytes, has returned
C8_Witness ==
  \E p \in Procs :
    /\ proc[p].pc = "cached"
    /\ "bytes" \in DOMAIN disk[ImagePathOf(proc[p])]
    /\ disk[ImagePathOf(proc[p])].bytes # proc[p].imageBuffer

\* C9: the store holds at most one file for the image of a url, whatever the
\* number of albums that list it.
C9_OneBlobPerLocator ==
  \A u \in Urls :
    Cardinality({t \in Tokens : ImageFile(t, u) # NoFile}) <= 1

\* C10: whenever the record a load of a token returns changes while a call is
\* about to load it, it changes to the snapshot some call is saving: a reader
\* sees the previous snapshot or the new one.
AboutToLoad(r, token) ==
  /\ r.token = token
  /\ r.pc \in {"isAlbumCacheStale", "loadAlbumMetadata", "updateAlbumAccessTime"}

C10_AtomicSnapshotWrite ==
  [][\A token \in Tokens :
       (/\ disk'[MetadataPath(token)] # disk[MetadataPath(token)]
        /\ \E q \in Procs : AboutToLoad(proc'[q], token))
         => loadAlbumMetadata(disk'[MetadataPath(token)])
              \in {loadAlbumMetadata(disk[MetadataPath(token)])}
                    \cup {loadAlbumMetadata(proc[p].writing) :
                            p \in {w \in Procs : proc[w].openPath = MetadataPath(token)}}
    ]_vars

====
